---- MODULE Spec2Model ----
(***************************************************************************)
(* beads-lite: issues connected by typed dependency edges, kept in a       *)
(* SQLite store, with the ready-work query, the JSONL import and the       *)
(* transaction wrapper.  The store operations are operators over a         *)
(* database value [issues, deps]; every action applies one operation of    *)
(* the Store to the variables.                                             *)
(***************************************************************************)
EXTENDS Integers, Sequences, FiniteSets, TLC

VARIABLES issues,       \* table issues: stored id -> row
          deps,         \* table dependencies: set of (issue_id, depends_on_id, type)
          foreignKeys,  \* whether the SQLite build enforces the declared FOREIGN KEYs
          clock,        \* the instant time.Now() returns
          last,         \* the last call made on the store and what it returned
          conn          \* the transaction open on the pooled connection, if any

vars == <<issues, deps, foreignKeys, clock, last, conn>>

----------------------------------------------------------------------------
(* Bounds of the model *)

\* at most this many rows in table dependencies
MaxDeps == 3

\* the same where every call is recorded (SpecOps)
MaxDepsOps == 2

\* at most this many lines in an import source (SpecTx)
MaxLines == 2

\* at most this many store calls inside the fn of WithTransaction (SpecTx)
MaxTxOps == 2

\* issue ids that calls are made with
IDs == {"a", "b", "c"}

\* the last instant the clock reaches (SpecLife)
MaxClock == 2

----------------------------------------------------------------------------
(* Entity model: issue.go, dependency.go *)

\* a nil *time.Time / SQL NULL in closed_at; instants are >= 1
NULL == 0

StatusOpen == "open"
StatusInProgress == "in_progress"
StatusClosed == "closed"

DepBlocks == "blocks"
DepParentChild == "parent-child"
DepRelated == "related"

ResolutionDone == "done"
ResolutionWontfix == "wontfix"
ResolutionDuplicate == "duplicate"

StatusValid(s) == s \in {StatusOpen, StatusInProgress, StatusClosed}

IssueTypeValid(t) == t \in {"task", "bug", "feature", "epic"}

ResolutionValid(r) == r \in {"", ResolutionDone, ResolutionWontfix, ResolutionDuplicate}

\* DepType.Valid with the hierarchical type spelled with an underscore
DepTypeValidUnderscore(t) == t \in {DepBlocks, "parent_child", DepRelated}

DepTypeValid(t) == t \in {DepBlocks, DepParentChild, DepRelated}

\* strings.TrimSpace on the titles the model uses
TrimSpace(s) == IF s \in {"", " ", "  "} THEN "" ELSE s

NewIssue(id, title, now) ==
    [id |-> id, title |-> title, description |-> "", status |-> StatusOpen,
     priority |-> 2, type |-> "task", created_at |-> now, updated_at |-> now,
     closed_at |-> NULL, resolution |-> ""]

\* Issue.Validate without its last check, the one on the resolution
ValidateNoResolution(i) ==
    IF TrimSpace(i.title) = "" THEN "title cannot be empty"
    ELSE IF ~StatusValid(i.status) THEN "invalid status"
    ELSE IF ~IssueTypeValid(i.type) THEN "invalid issue type"
    ELSE IF i.priority < 0 \/ i.priority > 4 THEN "priority must be 0-4"
    ELSE "nil"

\* Issue.Validate: "nil" or the error
Validate(i) ==
    IF TrimSpace(i.title) = "" THEN "title cannot be empty"
    ELSE IF ~StatusValid(i.status) THEN "invalid status"
    ELSE IF ~IssueTypeValid(i.type) THEN "invalid issue type"
    ELSE IF i.priority < 0 \/ i.priority > 4 THEN "priority must be 0-4"
    ELSE IF ~ResolutionValid(i.resolution) THEN "invalid resolution"
    ELSE "nil"

NewDependency(issueID, dependsOnID, depType) ==
    [issue_id |-> issueID, depends_on_id |-> dependsOnID, type |-> depType]

\* Dependency.Validate without its last check, the one on self-dependency
DependencyValidateAllowsSelf(d) ==
    IF d.issue_id = "" THEN "issue_id cannot be empty"
    ELSE IF d.depends_on_id = "" THEN "depends_on_id cannot be empty"
    ELSE IF ~DepTypeValid(d.type) THEN "invalid dependency type"
    ELSE "nil"

\* Dependency.Validate: "nil" or the error
DependencyValidate(d) ==
    IF d.issue_id = "" THEN "issue_id cannot be empty"
    ELSE IF d.depends_on_id = "" THEN "depends_on_id cannot be empty"
    ELSE IF ~DepTypeValid(d.type) THEN "invalid dependency type"
    ELSE IF d.issue_id = d.depends_on_id THEN "issue cannot depend on itself"
    ELSE "nil"

----------------------------------------------------------------------------
(* Persistence store: storage.go.  A database value db is                  *)
(* [issues |-> rows by id, deps |-> rows]; an operation returns            *)
(* [db |-> the database after it, err |-> "nil" or the error].             *)

Ret(db, err) == [db |-> db, err |-> err]

Stored(db) == DOMAIN db.issues

\* the FOREIGN KEY clauses of table dependencies, checked when enforced
ForeignKeyOK(db, d, fk) ==
    fk => (d.issue_id \in Stored(db) /\ d.depends_on_id \in Stored(db))

\* CreateIssue as INSERT OR REPLACE: a row with the id is overwritten
CreateIssueOrReplace(db, issue) ==
    IF Validate(issue) # "nil" THEN Ret(db, Validate(issue))
    ELSE Ret([db EXCEPT !.issues =
                 [x \in Stored(db) \cup {issue.id} |->
                     IF x = issue.id THEN issue ELSE db.issues[x]]], "nil")

CreateIssue(db, issue) ==
    IF Validate(issue) # "nil" THEN Ret(db, Validate(issue))
    ELSE IF issue.id \in Stored(db) THEN Ret(db, "insert issue: UNIQUE constraint failed")
    ELSE Ret([db EXCEPT !.issues =
                 [x \in Stored(db) \cup {issue.id} |->
                     IF x = issue.id THEN issue ELSE db.issues[x]]], "nil")

\* GetIssue that returns no error when the query finds no row
GetIssueAlwaysFound(db, id) ==
    IF id \in Stored(db) THEN [issue |-> db.issues[id], err |-> "nil"]
    ELSE [issue |-> NULL, err |-> "nil"]

\* GetIssue whose query finds no row whatever the id
GetIssueNeverFound(db, id) == [issue |-> NULL, err |-> "ErrIssueNotFound"]

GetIssue(db, id) ==
    IF id \in Stored(db) THEN [issue |-> db.issues[id], err |-> "nil"]
    ELSE [issue |-> NULL, err |-> "ErrIssueNotFound"]

\* UpdateIssue as an upsert: an id that is not stored gets a row
UpdateIssueOrInsert(db, issue, now) ==
    IF Validate(issue) # "nil" THEN Ret(db, Validate(issue))
    ELSE Ret([db EXCEPT !.issues =
                 [x \in Stored(db) \cup {issue.id} |->
                     IF x = issue.id THEN [issue EXCEPT !.updated_at = now]
                     ELSE db.issues[x]]], "nil")

UpdateIssue(db, issue, now) ==
    IF Validate(issue) # "nil" THEN Ret(db, Validate(issue))
    ELSE IF issue.id \notin Stored(db) THEN Ret(db, "nil")
    ELSE Ret([db EXCEPT !.issues[issue.id] =
                 [@ EXCEPT !.title = issue.title, !.description = issue.description,
                           !.status = issue.status, !.priority = issue.priority,
                           !.type = issue.type, !.updated_at = now,
                           !.closed_at = issue.closed_at,
                           !.resolution = issue.resolution]], "nil")

\* CloseIssue whose UPDATE leaves status out
CloseIssueKeepsStatus(db, id, resolution, now) ==
    IF id \notin Stored(db) THEN Ret(db, "nil")
    ELSE Ret([db EXCEPT !.issues[id] =
                 [@ EXCEPT !.updated_at = now, !.closed_at = now,
                           !.resolution = resolution]], "nil")

CloseIssue(db, id, resolution, now) ==
    IF id \notin Stored(db) THEN Ret(db, "nil")
    ELSE Ret([db EXCEPT !.issues[id] =
                 [@ EXCEPT !.status = StatusClosed, !.updated_at = now,
                           !.closed_at = now, !.resolution = resolution]], "nil")

\* AddDependency with a check that rejects an edge whose reverse is stored
AddDependencyRejectsBackEdge(db, issueID, dependsOnID, depType, fk) ==
    LET dep == NewDependency(issueID, dependsOnID, depType) IN
    IF DependencyValidate(dep) # "nil" THEN Ret(db, DependencyValidate(dep))
    ELSE IF NewDependency(dependsOnID, issueID, depType) \in db.deps
         THEN Ret(db, "dependency cycle")
    ELSE IF dep \in db.deps THEN Ret(db, "UNIQUE constraint failed")
    ELSE IF ~ForeignKeyOK(db, dep, fk) THEN Ret(db, "FOREIGN KEY constraint failed")
    ELSE Ret([db EXCEPT !.deps = @ \cup {dep}], "nil")

\* AddDependency as INSERT OR IGNORE: a triple that is stored raises no error
AddDependencyIgnoresDuplicate(db, issueID, dependsOnID, depType, fk) ==
    LET dep == NewDependency(issueID, dependsOnID, depType) IN
    IF DependencyValidate(dep) # "nil" THEN Ret(db, DependencyValidate(dep))
    ELSE IF dep \in db.deps THEN Ret(db, "nil")
    ELSE IF ~ForeignKeyOK(db, dep, fk) THEN Ret(db, "FOREIGN KEY constraint failed")
    ELSE Ret([db EXCEPT !.deps = @ \cup {dep}], "nil")

AddDependency(db, issueID, dependsOnID, depType, fk) ==
    LET dep == NewDependency(issueID, dependsOnID, depType) IN
    IF DependencyValidate(dep) # "nil" THEN Ret(db, DependencyValidate(dep))
    ELSE IF dep \in db.deps THEN Ret(db, "UNIQUE constraint failed")
    ELSE IF ~ForeignKeyOK(db, dep, fk) THEN Ret(db, "FOREIGN KEY constraint failed")
    ELSE Ret([db EXCEPT !.deps = @ \cup {dep}], "nil")

\* RemoveDependency that reports a DELETE of no row
RemoveDependencyNotFound(db, issueID, dependsOnID, depType) ==
    IF NewDependency(issueID, dependsOnID, depType) \notin db.deps
    THEN Ret(db, "dependency not found")
    ELSE Ret([db EXCEPT !.deps = @ \ {NewDependency(issueID, dependsOnID, depType)}],
             "nil")

RemoveDependency(db, issueID, dependsOnID, depType) ==
    Ret([db EXCEPT !.deps = @ \ {NewDependency(issueID, dependsOnID, depType)}], "nil")

\* RemoveAllDependencies whose DELETE matches no row
RemoveAllDependenciesNone(db, issueID) == Ret(db, "nil")

\* RemoveAllDependencies whose DELETE names depends_on_id as well
RemoveAllDependenciesBothSides(db, issueID) ==
    Ret([db EXCEPT !.deps = {d \in @ : d.issue_id # issueID /\ d.depends_on_id # issueID}],
        "nil")

\* RemoveAllDependencies whose DELETE has no WHERE clause
RemoveAllDependenciesNoWhere(db, issueID) == Ret([db EXCEPT !.deps = {}], "nil")

RemoveAllDependencies(db, issueID) ==
    Ret([db EXCEPT !.deps = {d \in @ : d.issue_id # issueID}], "nil")

GetDependencies(db, issueID) == {d \in db.deps : d.issue_id = issueID}

\* DeleteIssue whose first DELETE names issue_id alone
DeleteIssueOwnEdgesOnly(db, id) ==
    LET afterDeps == [db EXCEPT !.deps = {d \in @ : d.issue_id # id}]
        rows == IF id \in Stored(afterDeps) THEN 1 ELSE 0
        afterIssue == [afterDeps EXCEPT !.issues =
                          [x \in Stored(afterDeps) \ {id} |-> afterDeps.issues[x]]]
    IN  IF rows = 0 THEN Ret(db, "issue not found")
        ELSE Ret(afterIssue, "nil")

\* DeleteIssue whose rows == 0 return leaves the DELETE on dependencies in place
DeleteIssueNoRollback(db, id) ==
    LET afterDeps == [db EXCEPT !.deps =
                         {d \in @ : d.issue_id # id /\ d.depends_on_id # id}]
        rows == IF id \in Stored(afterDeps) THEN 1 ELSE 0
        afterIssue == [afterDeps EXCEPT !.issues =
                          [x \in Stored(afterDeps) \ {id} |-> afterDeps.issues[x]]]
    IN  IF rows = 0 THEN Ret(afterDeps, "issue not found")
        ELSE Ret(afterIssue, "nil")

\* DeleteIssue that returns nil without tx.Commit, so that the deferred
\* Rollback undoes both DELETEs
DeleteIssueNoCommit(db, id) ==
    IF id \in Stored(db) THEN Ret(db, "nil") ELSE Ret(db, "issue not found")

\* DeleteIssue: both DELETEs run in one transaction; rows == 0 returns before
\* Commit and the deferred Rollback undoes the DELETE on dependencies
DeleteIssue(db, id) ==
    LET afterDeps == [db EXCEPT !.deps =
                         {d \in @ : d.issue_id # id /\ d.depends_on_id # id}]
        rows == IF id \in Stored(afterDeps) THEN 1 ELSE 0
        afterIssue == [afterDeps EXCEPT !.issues =
                          [x \in Stored(afterDeps) \ {id} |-> afterDeps.issues[x]]]
    IN  IF rows = 0 THEN Ret(db, "issue not found")
        ELSE Ret(afterIssue, "nil")

\* DeleteIssue called while the connection is inside BEGIN IMMEDIATE: db.Begin
\* fails, nothing is deleted
DeleteIssueInTransaction(db, id) ==
    Ret(db, "cannot start a transaction within a transaction")

\* WithTransaction that returns on an error of fn without ROLLBACK, so that the
\* writes of fn stay
WithTransactionNoRollback(db, r) == Ret(r.db, r.err)

\* WithTransaction that wraps the error of fn the way it wraps those of BEGIN
\* and COMMIT
WithTransactionWrapsError(db, r) ==
    IF r.err # "nil" THEN Ret(db, "transaction failed")
    ELSE Ret(r.db, "nil")

\* WithTransaction(fn): db is the database at BEGIN IMMEDIATE, r what fn
\* returned and the database as fn's writes left it; an error of fn rolls
\* back to db and is returned as it is, nil commits
WithTransaction(db, r) ==
    IF r.err # "nil" THEN Ret(db, r.err)
    ELSE Ret(r.db, "nil")

----------------------------------------------------------------------------
(* Bulk exchange: jsonl.go *)

\* what json.Unmarshal reads from a line: an IssueExport
IssueExport(id, title, status, closedAt, resolution, dependencies) ==
    [id |-> id, title |-> title, description |-> "", status |-> status,
     priority |-> 2, type |-> "task", created_at |-> 1, updated_at |-> 1,
     closed_at |-> closedAt, resolution |-> resolution,
     dependencies |-> dependencies]

DependencyExport(dependsOn, depType) == [depends_on |-> dependsOn, type |-> depType]

\* a line of the source: empty, spaces only, not JSON, or the JSON of an
\* IssueExport
EmptyLine == [kind |-> "empty", export |-> IssueExport("", "", "", NULL, "", <<>>)]
SpaceLine == [kind |-> "space", export |-> IssueExport("", "", "", NULL, "", <<>>)]
MalformedLine == [kind |-> "malformed", export |-> IssueExport("", "", "", NULL, "", <<>>)]
RecordLine(export) == [kind |-> "record", export |-> export]

\* the pre-scan: the scanner's lines of length > 0, in order
RECURSIVE ScanLines(_)
ScanLines(source) ==
    IF source = <<>> THEN <<>>
    ELSE IF Head(source).kind = "empty" THEN ScanLines(Tail(source))
    ELSE <<Head(source)>> \o ScanLines(Tail(source))

\* json.Unmarshal(line, &export)
Unmarshal(line) ==
    IF line.kind = "record" THEN [export |-> line.export, err |-> "nil"]
    ELSE [export |-> line.export, err |-> "parse error"]

\* the loop over export.Dependencies, from the j-th on
RECURSIVE AddDependencies(_, _, _, _, _)
AddDependencies(db, issueID, dependencies, j, fk) ==
    IF j > Len(dependencies) THEN Ret(db, "nil")
    ELSE LET r == AddDependency(db, issueID, dependencies[j].depends_on,
                                dependencies[j].type, fk)
         IN  IF r.err # "nil" THEN Ret(r.db, "add dependency")
             ELSE AddDependencies(r.db, issueID, dependencies, j + 1, fk)

ImportRet(db, err, line, created, updated) ==
    [db |-> db, err |-> err, line |-> line, created |-> created, updated |-> updated]

\* the body of the function ImportFromJSONL hands to WithTransaction: the
\* lines from index lineNum (0-based) on, with the counters so far
RECURSIVE ImportLines(_, _, _, _, _, _, _)
ImportLines(db, lines, lineNum, created, updated, now, fk) ==
    IF lineNum >= Len(lines) THEN ImportRet(db, "nil", 0, created, updated)
    ELSE
      LET parsed == Unmarshal(lines[lineNum + 1])
          export == parsed.export
          existing == GetIssue(db, export.id)
          issue == [id |-> export.id, title |-> export.title,
                    description |-> export.description, status |-> export.status,
                    priority |-> export.priority, type |-> export.type,
                    created_at |-> export.created_at, updated_at |-> export.updated_at,
                    closed_at |-> export.closed_at, resolution |-> export.resolution]
          upd == UpdateIssue(db, issue, now)
          cleared == RemoveAllDependencies(upd.db, issue.id)
          ins == CreateIssue(db, issue)
          written == IF existing.err = "nil" THEN cleared.db ELSE ins.db
          added == AddDependencies(written, issue.id, export.dependencies, 1, fk)
      IN  IF parsed.err # "nil"
            THEN ImportRet(db, "parse error", lineNum + 1, created, updated)
          ELSE IF existing.err = "nil" /\ upd.err # "nil"
            THEN ImportRet(db, "update issue", lineNum + 1, created, updated)
          ELSE IF existing.err # "nil" /\ ins.err # "nil"
            THEN ImportRet(db, "create issue", lineNum + 1, created, updated)
          ELSE IF added.err # "nil"
            THEN ImportRet(added.db, added.err, lineNum + 1,
                           IF existing.err = "nil" THEN created ELSE created + 1,
                           IF existing.err = "nil" THEN updated + 1 ELSE updated)
          ELSE ImportLines(added.db, lines, lineNum + 1,
                           IF existing.err = "nil" THEN created ELSE created + 1,
                           IF existing.err = "nil" THEN updated + 1 ELSE updated,
                           now, fk)

\* ImportFromJSONL: the database after the call, the error with its line
\* number, and the ImportStats (nil, here 0 and 0, with an error)
ImportFromJSONL(db, source, now, fk) ==
    LET fn == ImportLines(db, ScanLines(source), 0, 0, 0, now, fk)
        tx == WithTransaction(db, fn)
    IN  IF tx.err # "nil" THEN ImportRet(tx.db, tx.err, fn.line, 0, 0)
        ELSE ImportRet(tx.db, "nil", 0, fn.created, fn.updated)

\* the ids in ascending order, as sort.Slice on ID leaves them
IDOrder == <<"a", "b", "c">>

\* the rows of one issue in the slice GetAllDependencies builds; the SELECT has
\* no ORDER BY, the rows come in the order the table yields them
RECURSIVE DependencyRows(_)
DependencyRows(rows) ==
    IF rows = {} THEN <<>>
    ELSE LET d == CHOOSE x \in rows : TRUE
         IN  <<d>> \o DependencyRows(rows \ {d})

\* toIssueExport: the issue's fields and its rows as DependencyExports; the
\* fields json omits when empty (description, closed_at, resolution) decode to
\* the empty values they had
toIssueExport(issue, rows) ==
    [id |-> issue.id, title |-> issue.title, description |-> issue.description,
     status |-> issue.status, priority |-> issue.priority, type |-> issue.type,
     created_at |-> issue.created_at, updated_at |-> issue.updated_at,
     closed_at |-> issue.closed_at, resolution |-> issue.resolution,
     dependencies |-> [j \in 1..Len(rows) |->
                          DependencyExport(rows[j].depends_on_id, rows[j].type)]]

\* one line per issue of the slice, in its order
RECURSIVE WriteIssuesAsJSONL(_, _)
WriteIssuesAsJSONL(db, ids) ==
    IF ids = <<>> THEN <<>>
    ELSE <<RecordLine(toIssueExport(db.issues[Head(ids)],
                                    DependencyRows(GetDependencies(db, Head(ids)))))>>
         \o WriteIssuesAsJSONL(db, Tail(ids))

\* the place of an id in the order of strings
IDRank(id) == CHOOSE k \in 1..Len(IDOrder) : IDOrder[k] = id

\* ORDER BY priority ASC, created_at ASC: row x sorts strictly before row y
RowBefore(db, x, y) ==
    \/ db.issues[x].priority < db.issues[y].priority
    \/ /\ db.issues[x].priority = db.issues[y].priority
       /\ db.issues[x].created_at < db.issues[y].created_at

\* the rows of ids in the order of the SELECT; rows equal in priority and
\* created_at come in the order the table yields them
RECURSIVE ListIssuesFrom(_, _)
ListIssuesFrom(db, ids) ==
    IF ids = {} THEN <<>>
    ELSE LET first == CHOOSE x \in ids : \A y \in ids : ~RowBefore(db, y, x)
         IN  <<first>> \o ListIssuesFrom(db, ids \ {first})

\* ListIssues: the ids of the rows, in the order returned
ListIssues(db) == ListIssuesFrom(db, Stored(db))

\* the orders in which the SELECT of ListIssues may yield the rows: ORDER BY
\* names priority and created_at and nothing else, the order of rows equal in
\* both is left to the engine
ListIssuesResults(db) ==
    {q \in [1..Cardinality(Stored(db)) -> Stored(db)] :
        /\ \A j \in DOMAIN q, k \in DOMAIN q : j # k => q[j] # q[k]
        /\ \A j \in DOMAIN q, k \in DOMAIN q : j < k => ~RowBefore(db, q[k], q[j])}

\* ExportToJSONL without its sort.Slice: the slice stays as ListIssues built it
SortSliceNone(ids) == ids

\* sort.Slice(issues, less) with less comparing ID: the ids of a slice are
\* distinct (PRIMARY KEY), the sorted slice holds them in the order of strings
SortSliceByID(ids) ==
    SelectSeq(IDOrder, LAMBDA id : \E k \in 1..Len(ids) : ids[k] = id)

\* ExportToJSONL: ListIssues, the sort by ID, then the lines written
ExportToJSONL(db) == WriteIssuesAsJSONL(db, SortSliceByID(ListIssues(db)))

----------------------------------------------------------------------------
(* Ready-work query: the SQL of GetReadyWork *)

\* the first SELECT without its type filter on parent-child edges
DirectlyBlockedRowsWithParentChild(db) ==
    {d.issue_id : d \in {e \in db.deps :
        /\ e.type \in {"blocks", "parent-child"}
        /\ e.depends_on_id \in Stored(db)
        /\ db.issues[e.depends_on_id].status # "closed"}}

\* the first SELECT without its type filter on related edges
DirectlyBlockedRowsWithRelated(db) ==
    {d.issue_id : d \in {e \in db.deps :
        /\ e.type \in {"blocks", "related"}
        /\ e.depends_on_id \in Stored(db)
        /\ db.issues[e.depends_on_id].status # "closed"}}

\* the first SELECT taking an issue as blocked only while none of its blockers
\* is closed
DirectlyBlockedRowsNoneClosed(db) ==
    {i \in {d.issue_id : d \in db.deps} :
        /\ \E e \in db.deps : e.issue_id = i /\ e.type = "blocks"
                                /\ e.depends_on_id \in Stored(db)
        /\ \A e \in db.deps :
              (e.issue_id = i /\ e.type = "blocks" /\ e.depends_on_id \in Stored(db))
              => db.issues[e.depends_on_id].status # "closed"}

\* the first SELECT joined to the dependent's row as well, which must not be
\* closed either
DirectlyBlockedRowsOpenDependents(db) ==
    {d.issue_id : d \in {e \in db.deps :
        /\ e.type = "blocks"
        /\ e.depends_on_id \in Stored(db)
        /\ db.issues[e.depends_on_id].status # "closed"
        /\ e.issue_id \in Stored(db)
        /\ db.issues[e.issue_id].status # "closed"}}

\* the first SELECT with an outer join: a blocks edge whose blocker has no row
\* counts as one to a blocker that is not closed
DirectlyBlockedRowsOuterJoin(db) ==
    {d.issue_id : d \in {e \in db.deps :
        /\ e.type = "blocks"
        /\ e.depends_on_id \in Stored(db) => db.issues[e.depends_on_id].status # "closed"}}

\* first SELECT of the CTE: blocks edges joined to a blocker row that is not closed
DirectlyBlockedRows(db) ==
    {d.issue_id : d \in {e \in db.deps :
        /\ e.type = "blocks"
        /\ e.depends_on_id \in Stored(db)
        /\ db.issues[e.depends_on_id].status # "closed"}}

\* the recursive SELECT with the join columns swapped
ChildRowsReversed(db, b) ==
    {d.depends_on_id : d \in {e \in db.deps :
        e.issue_id = b /\ e.type = "parent-child"}}

\* recursive SELECT of the CTE run on the single row b taken from the queue
ChildRows(db, b) ==
    {d.issue_id : d \in {e \in db.deps :
        e.depends_on_id = b /\ e.type = "parent-child"}}

\* WITH RECURSIVE ... UNION: rows leave the queue one at a time, the recursive
\* SELECT runs on each, and rows produced before are discarded
\* a single, non-recursive pass: only the children of the directly blocked rows
RecursiveCTEOnePass(db, queue, blocked) ==
    blocked \cup UNION {ChildRows(db, b) : b \in queue}

RECURSIVE RecursiveCTE(_, _, _)
RecursiveCTE(db, queue, blocked) ==
    IF queue = {} THEN blocked
    ELSE LET b == CHOOSE x \in queue : TRUE
             fresh == ChildRows(db, b) \ blocked
         IN  RecursiveCTE(db, (queue \ {b}) \cup fresh, blocked \cup fresh)

BlockedCTE(db) == RecursiveCTE(db, DirectlyBlockedRows(db), DirectlyBlockedRows(db))

\* the ids of the rows GetReadyWork returns
GetReadyWork(db) ==
    {id \in Stored(db) :
        /\ db.issues[id].status \in {"open", "in_progress"}
        /\ id \notin BlockedCTE(db)}

\* the rows the recursive SELECT run on row b adds under UNION ALL: those
\* already in blocked are added again
FreshRowsUnionAll(db, b, blocked) == ChildRows(db, b)

\* the rows the recursive SELECT run on row b adds under UNION: those not in
\* blocked yet
FreshRows(db, b, blocked) == ChildRows(db, b) \ blocked

\* the evaluation of the CTE with its steps counted: one step takes a row off
\* the queue and runs the recursive SELECT on it.  done tells whether the queue
\* ran empty within fuel steps
RECURSIVE RecursiveCTESteps(_, _, _, _, _)
RecursiveCTESteps(db, queue, blocked, steps, fuel) ==
    IF queue = {} THEN [blocked |-> blocked, steps |-> steps, done |-> TRUE]
    ELSE IF fuel = 0 THEN [blocked |-> blocked, steps |-> steps, done |-> FALSE]
    ELSE LET b == CHOOSE x \in queue : TRUE
             fresh == FreshRows(db, b, blocked)
         IN  RecursiveCTESteps(db, (queue \ {b}) \cup fresh, blocked \cup fresh,
                               steps + 1, fuel - 1)

\* the values of dependencies.issue_id: the rows blocked can hold
IssueIDRows(db) == {d.issue_id : d \in db.deps}

\* the CTE of GetReadyWork run for at most one step more than there are rows
BlockedCTERun(db) ==
    RecursiveCTESteps(db, DirectlyBlockedRows(db), DirectlyBlockedRows(db), 0,
                      Cardinality(IssueIDRows(db)) + 1)

----------------------------------------------------------------------------
(* The store under a sequence of calls *)

DB == [issues |-> issues, deps |-> deps]

EmptyIssues == [x \in {} |-> NULL]

\* a call, the id it was made with and what it returned; line, created and
\* updated are those of an import, calls the number of store calls the fn of
\* WithTransaction made, rows the ids of the rows a query returned
Call(op, id, err) ==
    [op |-> op, id |-> id, err |-> err, line |-> 0, created |-> 0, updated |-> 0,
     calls |-> 0, rows |-> <<>>]

\* the connection outside a transaction; inside one, pc is "fn" and saved the
\* database ROLLBACK returns to
NoTx == [pc |-> "idle", saved |-> [issues |-> EmptyIssues, deps |-> {}]]

Init ==
    /\ issues = EmptyIssues
    /\ deps = {}
    /\ foreignKeys \in BOOLEAN
    /\ clock = 1
    /\ last = Call("NewStore", "", "nil")
    /\ conn = NoTx

\* commit the result r of an operation to the tables
Apply(r) ==
    /\ issues' = r.db.issues
    /\ deps' = r.db.deps

\* the call op(id) returns r: the tables become r.db and the call is recorded
\* when rec; the build and the clock stay
Step(r, op, id, rec) ==
    /\ Apply(r)
    /\ last' = IF rec THEN Call(op, id, r.err) ELSE last
    /\ UNCHANGED <<foreignKeys, clock, conn>>

CallCreateIssue(id, st, rec) ==
    Step(CreateIssue(DB, [NewIssue(id, "T", clock) EXCEPT !.status = st]),
         "CreateIssue", id, rec)

CallCloseIssue(id, rec) ==
    Step(CloseIssue(DB, id, ResolutionDone, clock), "CloseIssue", id, rec)

CallAddDependency(i, d, t, rec) ==
    Step(AddDependency(DB, i, d, t, foreignKeys), "AddDependency", i, rec)

CallRemoveDependency(i, d, t, rec) ==
    Step(RemoveDependency(DB, i, d, t), "RemoveDependency", i, rec)

CallDeleteIssue(id, rec) ==
    Step(DeleteIssue(DB, id), "DeleteIssue", id, rec)

DepTypes == {DepBlocks, DepParentChild, DepRelated}

\* Spec: the dependency graph under create, close, add, remove and delete; the
\* ready-work query is read off every state, the calls are not recorded
Next ==
    \/ \E id \in IDs, st \in {StatusOpen, StatusInProgress} :
          CallCreateIssue(id, st, FALSE)
    \/ \E id \in IDs : CallCloseIssue(id, FALSE)
    \/ \E i \in IDs, d \in IDs, t \in DepTypes :
          Cardinality(deps) < MaxDeps /\ CallAddDependency(i, d, t, FALSE)
    \/ \E i \in IDs, d \in IDs, t \in DepTypes : CallRemoveDependency(i, d, t, FALSE)
    \/ \E id \in IDs : CallDeleteIssue(id, FALSE)

Spec == Init /\ [][Next]_vars

\* SpecOps: the same calls, each recorded in last with what it returned
NextOps ==
    \/ \E id \in IDs : CallCreateIssue(id, StatusOpen, TRUE)
    \/ \E id \in IDs : CallCloseIssue(id, TRUE)
    \/ \E i \in IDs, d \in IDs, t \in DepTypes :
          Cardinality(deps) < MaxDepsOps /\ CallAddDependency(i, d, t, TRUE)
    \/ \E i \in IDs, d \in IDs, t \in DepTypes : CallRemoveDependency(i, d, t, TRUE)
    \/ \E id \in IDs : CallDeleteIssue(id, TRUE)

SpecOps == Init /\ [][NextOps]_vars

\* the store before any call
EmptyDB == [issues |-> EmptyIssues, deps |-> {}]

----------------------------------------------------------------------------
(* Command layer: main.go *)

\* bl update <id> --status <status>: the issue is read, the flag is validated
\* and applied, the issue is written back with UpdateIssue; "" is the flag
\* left out
cmdUpdate(db, id, status, now) ==
    LET got == GetIssue(db, id) IN
    IF got.err # "nil" THEN Ret(db, "ErrIssueNotFound")
    ELSE IF status # "" /\ ~StatusValid(status) THEN Ret(db, "invalid status")
    ELSE UpdateIssue(db, [got.issue EXCEPT
                             !.status = IF status = "" THEN @ ELSE status], now)

\* bl close <id> --resolution <resolution>
cmdClose(db, id, resolution, now) ==
    IF ~ResolutionValid(resolution) THEN Ret(db, "invalid resolution")
    ELSE IF GetIssue(db, id).err # "nil" THEN Ret(db, "ErrIssueNotFound")
    ELSE CloseIssue(db, id, resolution, now)

\* sortByPriorityThenID: the issues of S by priority, then by id
RECURSIVE sortByPriorityThenID(_, _)
sortByPriorityThenID(db, S) ==
    IF S = {} THEN <<>>
    ELSE LET first == CHOOSE x \in S : \A y \in S \ {x} :
                          \/ db.issues[x].priority < db.issues[y].priority
                          \/ /\ db.issues[x].priority = db.issues[y].priority
                             /\ IDRank(x) < IDRank(y)
         IN  <<first>> \o sortByPriorityThenID(db, S \ {first})

\* outputIssuesTree, the map children: the listed issues with a blocks edge to
\* the listed issue parentID, when that one is not closed
TreeChildren(db, parentID) ==
    {d.issue_id : d \in {e \in db.deps :
        /\ e.type = "blocks"
        /\ e.depends_on_id = parentID
        /\ e.issue_id \in Stored(db)
        /\ parentID \in Stored(db)
        /\ db.issues[parentID].status # "closed"}}

\* outputIssuesTree, the roots: the listed issues that are no one's child
TreeRoots(db) ==
    {id \in Stored(db) : \A p \in Stored(db) : id \notin TreeChildren(db, p)}

\* printTree(children, parentID, prefix): a line for each child, each followed
\* by the tree below it.  lines holds the ids printed with their depth; depth
\* is the number of calls of printTree on the stack, and done is FALSE when
\* the calls nest deeper than fuel, which is when an id recurs on the path
\* from the root and the recursion has no end
RECURSIVE printTree(_, _, _, _), printKids(_, _, _, _)
printKids(db, kids, depth, fuel) ==
    IF kids = <<>> THEN [lines |-> <<>>, done |-> TRUE]
    ELSE LET line == [id |-> Head(kids), depth |-> depth]
             below == printTree(db, Head(kids), depth + 1, fuel - 1)
             rest == printKids(db, Tail(kids), depth, fuel)
         IN  IF ~below.done THEN [lines |-> <<line>> \o below.lines, done |-> FALSE]
             ELSE [lines |-> <<line>> \o below.lines \o rest.lines, done |-> rest.done]

printTree(db, parentID, depth, fuel) ==
    IF fuel = 0 THEN [lines |-> <<>>, done |-> FALSE]
    ELSE printKids(db, sortByPriorityThenID(db, TreeChildren(db, parentID)), depth, fuel)

\* the loop of outputIssuesTree over the sorted roots
RECURSIVE printRoots(_, _)
printRoots(db, roots) ==
    IF roots = <<>> THEN [lines |-> <<>>, done |-> TRUE]
    ELSE LET line == [id |-> Head(roots), depth |-> 0]
             below == printTree(db, Head(roots), 1, Cardinality(Stored(db)) + 1)
             rest == printRoots(db, Tail(roots))
         IN  IF ~below.done THEN [lines |-> <<line>> \o below.lines, done |-> FALSE]
             ELSE [lines |-> <<line>> \o below.lines \o rest.lines, done |-> rest.done]

\* bl list --tree with no filter: every stored issue is listed
outputIssuesTree(db) == printRoots(db, sortByPriorityThenID(db, TreeRoots(db)))

----------------------------------------------------------------------------
(* SpecLife: the life of two issues under a clock that advances *)

LifeIDs == {"a", "b"}

\* resolutions close is called with; "invalid" is the one of the test
CloseResolutions == {ResolutionDone, ResolutionWontfix, "invalid"}

\* time.Now() moves on between calls
Tick ==
    /\ clock < MaxClock
    /\ clock' = clock + 1
    /\ UNCHANGED <<issues, deps, foreignKeys, last, conn>>

CallCloseIssueAs(id, resolution) ==
    Step(CloseIssue(DB, id, resolution, clock), "CloseIssue", id, FALSE)

CallCmdClose(id, resolution) ==
    Step(cmdClose(DB, id, resolution, clock), "cmdClose", id, FALSE)

CallCmdUpdate(id, status) ==
    Step(cmdUpdate(DB, id, status, clock), "cmdUpdate", id, FALSE)

NextLife ==
    \/ Tick
    \/ \E id \in LifeIDs : CallCreateIssue(id, StatusOpen, FALSE)
    \/ \E id \in LifeIDs, r \in CloseResolutions : CallCloseIssueAs(id, r)
    \/ \E id \in LifeIDs, r \in CloseResolutions : CallCmdClose(id, r)
    \/ \E id \in LifeIDs, st \in {StatusOpen, StatusInProgress, StatusClosed} :
          CallCmdUpdate(id, st)

SpecLife == Init /\ [][NextLife]_vars

----------------------------------------------------------------------------
(* Graph vocabulary of the claims, stated on the tables and not on the query *)

IsStored(id) == id \in DOMAIN issues

IsActive(id) == IsStored(id) /\ issues[id].status \in {"open", "in_progress"}

\* id names a stored issue whose status is not closed
NotClosed(id) == IsStored(id) /\ issues[id].status # "closed"

\* the non-closed prerequisites of i: targets of its blocks edges
OpenPrerequisites(i) ==
    {p \in IDs : NotClosed(p) /\ NewDependency(i, p, "blocks") \in deps}

DirectlyBlocked == {i \in IDs : OpenPrerequisites(i) # {}}

Children(p) == {c \in IDs : NewDependency(c, p, "parent-child") \in deps}

Parents(c) == {p \in IDs : NewDependency(c, p, "parent-child") \in deps}

\* S is closed under parent -> child
ClosedDownward(S) == \A p \in S : Children(p) \subseteq S

\* the least set that contains DirectlyBlocked and is closed downward
Blocked ==
    LET direct == DirectlyBlocked
        closed == {S \in SUBSET IDs : direct \subseteq S /\ ClosedDownward(S)}
    IN  {x \in IDs : \A S \in closed : x \in S}

\* the issues at most n parent-child edges below (Descendants) or above
\* (Ancestors) the members of S, S included
RECURSIVE Descendants(_, _)
Descendants(S, n) ==
    IF n = 0 THEN S
    ELSE Descendants(S \cup UNION {Children(p) : p \in S}, n - 1)

RECURSIVE Ancestors(_, _)
Ancestors(S, n) ==
    IF n = 0 THEN S
    ELSE Ancestors(S \cup UNION {Parents(c) : c \in S}, n - 1)

Depth == Cardinality(IDs)

ProperAncestors(i) == Ancestors(Parents(i), Depth)

----------------------------------------------------------------------------
(* SpecTx: imports and transactions on a store of two issues *)

\* the lines import sources are made of
ImportLineSet ==
    {EmptyLine, MalformedLine,
     RecordLine(IssueExport("a", "T", "open", NULL, "", <<>>)),
     RecordLine(IssueExport("a", "M", "closed", 1, "done", <<>>)),
     RecordLine(IssueExport("b", "T", "open", NULL, "",
                            <<DependencyExport("a", "blocks")>>)),
     RecordLine(IssueExport("b", "T", "in_progress", NULL, "",
                            <<DependencyExport("a", "blocks"),
                              DependencyExport("a", "blocks")>>)),
     RecordLine(IssueExport("b", "T", "bogus", NULL, "", <<>>)),
     RecordLine(IssueExport("a", "T", "open", NULL, "",
                            <<DependencyExport("b", "related"),
                              DependencyExport("a", "blocks")>>))}

RECURSIVE SeqsUpTo(_, _)
SeqsUpTo(S, n) ==
    IF n = 0 THEN {<<>>}
    ELSE LET shorter == SeqsUpTo(S, n - 1)
         IN  shorter \cup {Append(q, x) : q \in shorter, x \in S}

ImportSources == SeqsUpTo(ImportLineSet, MaxLines)

\* the store calls a fn passed to WithTransaction makes
TxCalls ==
    {[op |-> "CreateIssue", id |-> "a"], [op |-> "CreateIssue", id |-> "b"],
     [op |-> "UpdateIssue", id |-> "a"], [op |-> "CloseIssue", id |-> "a"],
     [op |-> "AddDependency", id |-> "b"], [op |-> "DeleteIssue", id |-> "a"]}

\* one store call of fn on the working database
TxCall(db, c, now, fk) ==
    CASE c.op = "CreateIssue" -> CreateIssue(db, NewIssue(c.id, "T", now))
      [] c.op = "UpdateIssue" ->
            IF GetIssue(db, c.id).err # "nil" THEN Ret(db, "ErrIssueNotFound")
            ELSE UpdateIssue(db, [GetIssue(db, c.id).issue EXCEPT !.title = "M"], now)
      [] c.op = "CloseIssue" -> CloseIssue(db, c.id, ResolutionDone, now)
      [] c.op = "AddDependency" -> AddDependency(db, c.id, "a", "blocks", fk)
      [] c.op = "DeleteIssue" -> DeleteIssueInTransaction(db, c.id)

\* a fn that makes the calls in order, returns the first error one of them
\* returns, and otherwise returns ret
RECURSIVE RunFn(_, _, _, _, _)
RunFn(db, calls, ret, now, fk) ==
    IF calls = <<>> THEN Ret(db, ret)
    ELSE LET r == TxCall(db, Head(calls), now, fk)
         IN  IF r.err # "nil" THEN r
             ELSE RunFn(r.db, Tail(calls), ret, now, fk)

CallImportFromJSONL(source) ==
    LET r == ImportFromJSONL(DB, source, clock, foreignKeys) IN
    /\ Apply(r)
    /\ last' = [Call("ImportFromJSONL", "", r.err) EXCEPT
                   !.line = r.line, !.created = r.created, !.updated = r.updated]
    /\ UNCHANGED <<foreignKeys, clock, conn>>

CallWithTransaction(calls, ret) ==
    LET r == WithTransaction(DB, RunFn(DB, calls, ret, clock, foreignKeys)) IN
    /\ Apply(r)
    /\ last' = [Call("WithTransaction", "", r.err) EXCEPT !.calls = Len(calls)]
    /\ UNCHANGED <<foreignKeys, clock, conn>>

NextTx ==
    \/ \E source \in ImportSources : CallImportFromJSONL(source)
    \/ \E calls \in SeqsUpTo(TxCalls, MaxTxOps), ret \in {"nil", "testErr"} :
          CallWithTransaction(calls, ret)

SpecTx == Init /\ [][NextTx]_vars

\* SpecImport: upserts.  The lines: blank ones, "a" as created and "a" with
\* every field changed, "b" with a blocks edge and "b" with a related edge
UpsertLines ==
    {EmptyLine, SpaceLine,
     RecordLine(IssueExport("a", "T", "open", NULL, "", <<>>)),
     RecordLine([IssueExport("a", "U", "in_progress", NULL, "", <<>>) EXCEPT
                    !.description = "D", !.priority = 1, !.type = "feature",
                    !.created_at = 2, !.updated_at = 2]),
     RecordLine(IssueExport("b", "T", "open", NULL, "",
                            <<DependencyExport("a", "blocks")>>)),
     RecordLine(IssueExport("b", "T", "open", NULL, "",
                            <<DependencyExport("a", "related")>>))}

UpsertSources == SeqsUpTo(UpsertLines, MaxLines)

\* imports, and edges added through the store between them
NextImport ==
    \/ \E source \in UpsertSources : CallImportFromJSONL(source)
    \/ \E i \in LifeIDs, d \in LifeIDs :
          Cardinality(deps) < MaxDepsOps /\ CallAddDependency(i, d, DepBlocks, TRUE)

SpecImport == Init /\ [][NextImport]_vars

\* export followed by import of the written lines into the same store
CallExportImport == CallImportFromJSONL(ExportToJSONL(DB))

\* SpecExchange: the calls of Spec, not recorded, on at most MaxDepsOps edges,
\* and the import of the store's own export, recorded
NextExchange ==
    \/ \E id \in IDs : CallCreateIssue(id, StatusOpen, FALSE)
    \/ \E id \in IDs : CallCloseIssue(id, FALSE)
    \/ \E i \in IDs, d \in IDs, t \in DepTypes :
          Cardinality(deps) < MaxDepsOps /\ CallAddDependency(i, d, t, FALSE)
    \/ \E i \in IDs, d \in IDs, t \in DepTypes : CallRemoveDependency(i, d, t, FALSE)
    \/ \E id \in IDs : CallDeleteIssue(id, FALSE)
    \/ CallExportImport

SpecExchange == Init /\ [][NextExchange]_vars

\* SpecEdges: the table dependencies under every call that writes it.  The
\* lines imported: an edge, the same edge twice, and an edge of the issue to
\* itself
EdgeLines ==
    {RecordLine(IssueExport("b", "T", "open", NULL, "",
                            <<DependencyExport("a", "blocks")>>)),
     RecordLine(IssueExport("b", "T", "open", NULL, "",
                            <<DependencyExport("a", "related"),
                              DependencyExport("a", "related")>>)),
     RecordLine(IssueExport("a", "T", "open", NULL, "",
                            <<DependencyExport("b", "related"),
                              DependencyExport("a", "blocks")>>))}

NextEdges ==
    \/ \E id \in IDs : CallCreateIssue(id, StatusOpen, FALSE)
    \/ \E i \in IDs, d \in IDs, t \in DepTypes :
          Cardinality(deps) < MaxDepsOps /\ CallAddDependency(i, d, t, FALSE)
    \/ \E i \in IDs, d \in IDs, t \in DepTypes : CallRemoveDependency(i, d, t, FALSE)
    \/ \E id \in IDs : CallDeleteIssue(id, FALSE)
    \/ \E line \in EdgeLines : CallImportFromJSONL(<<line>>)

SpecEdges == Init /\ [][NextEdges]_vars

\* SpecStore: every mutation of the Store, recorded, on ids stored and not;
\* the edges are blocks edges

\* priorities create is called with: the default and the 5 of the test
CreatePriorities == {2, 5}

\* titles create is called with: one of a word and one of spaces
CreateTitles == {"T", " "}

\* the issues CreateIssue is handed for an id
CreateCandidates(id) ==
    {[NewIssue(id, title, clock) EXCEPT !.priority = p] :
        title \in CreateTitles, p \in CreatePriorities}

CallCreateIssueWith(issue) ==
    Step(CreateIssue(DB, issue), "CreateIssue", issue.id, TRUE)

\* the issue UpdateIssue is handed for an id: a valid one made by NewIssue,
\* stored or not
UpdateCandidate(id) == NewIssue(id, "M", clock)

CallUpdateIssue(id) ==
    Step(UpdateIssue(DB, UpdateCandidate(id), clock), "UpdateIssue", id, TRUE)

CallRemoveAllDependencies(id) ==
    Step(RemoveAllDependencies(DB, id), "RemoveAllDependencies", id, TRUE)

NextStore ==
    \/ \E id \in IDs : \E issue \in CreateCandidates(id) : CallCreateIssueWith(issue)
    \/ \E id \in LifeIDs : CallUpdateIssue(id)
    \/ \E id \in LifeIDs : CallCloseIssue(id, TRUE)
    \/ \E id \in IDs : CallDeleteIssue(id, TRUE)
    \/ \E i \in IDs, d \in IDs :
          Cardinality(deps) < MaxDepsOps /\ CallAddDependency(i, d, DepBlocks, TRUE)
    \/ \E i \in IDs, d \in IDs : CallRemoveDependency(i, d, DepBlocks, TRUE)
    \/ \E id \in IDs : CallRemoveAllDependencies(id)

SpecStore == Init /\ [][NextStore]_vars

\* SpecExport: exports of stores whose issues differ in priority and in the
\* instant they were made

\* priorities the issues are created with
ExportPriorities == {0, 2}

CallCreateIssueAt(id, priority, now) ==
    Step(CreateIssue(DB, [NewIssue(id, "T", now) EXCEPT !.priority = priority]),
         "CreateIssue", id, FALSE)

\* bl export: the lines are written to w; the tables are read and stay as
\* they are
CallExportToJSONL ==
    /\ Len(ExportToJSONL(DB)) = Cardinality(Stored(DB))
    /\ last' = Call("ExportToJSONL", "", "nil")
    /\ UNCHANGED <<issues, deps, foreignKeys, clock, conn>>

\* bl list: the rows come in one of the orders the SELECT may yield
CallListIssues ==
    /\ \E q \in ListIssuesResults(DB) :
          last' = [Call("ListIssues", "", "nil") EXCEPT !.rows = q]
    /\ UNCHANGED <<issues, deps, foreignKeys, clock, conn>>

NextExport ==
    \/ \E id \in IDs, p \in ExportPriorities, now \in 1..MaxClock :
          CallCreateIssueAt(id, p, now)
    \/ \E i \in IDs, d \in IDs :
          Cardinality(deps) < MaxDepsOps /\ CallAddDependency(i, d, DepBlocks, FALSE)
    \/ \E id \in IDs : CallDeleteIssue(id, FALSE)
    \/ CallExportToJSONL

SpecExport == Init /\ [][NextExport]_vars

\* SpecList: listings of stores whose issues tie or differ in priority and
\* created_at; every call is recorded
NextList ==
    \/ \E id \in IDs, p \in ExportPriorities, now \in 1..MaxClock :
          CallCreateIssueWith([NewIssue(id, "T", now) EXCEPT !.priority = p])
    \/ \E id \in IDs : CallDeleteIssue(id, TRUE)
    \/ CallListIssues

SpecList == Init /\ [][NextList]_vars

\* SpecValidate: CreateIssue handed issues of every shape, under one id

\* the field values of the table of TestIssueValidate, and the other members
\* of each enum
ValidateTitles == {"T", "", "  "}
ValidateStatuses == {StatusOpen, StatusInProgress, StatusClosed, "invalid"}
ValidateTypes == {"task", "bug", "feature", "epic", "invalid"}
ValidatePriorities == {-1, 0, 4, 5}
ValidateResolutions ==
    {"", ResolutionDone, ResolutionWontfix, ResolutionDuplicate, "invalid"}

ValidateInputs ==
    {[NewIssue("a", title, clock) EXCEPT !.status = st, !.type = ty,
                                         !.priority = p, !.resolution = r] :
        title \in ValidateTitles, st \in ValidateStatuses, ty \in ValidateTypes,
        p \in ValidatePriorities, r \in ValidateResolutions}

NextValidate ==
    \/ \E issue \in ValidateInputs : CallCreateIssueWith(issue)
    \/ CallDeleteIssue("a", TRUE)

SpecValidate == Init /\ [][NextValidate]_vars

\* SpecDepValidate: AddDependency and import handed edges of every shape

\* the ids of the table of TestDependencyValidate: empty, and two issues
DepValidateIDs == {"", "a", "b"}

\* the types: the three constants, the spelling with an underscore, and the
\* "invalid" of the test
DepValidateTypes == {DepBlocks, DepParentChild, DepRelated, "parent_child", "invalid"}

\* a record for "b" that lists one edge to "a" of type t
EdgeRecord(t) ==
    RecordLine(IssueExport("b", "T", "open", NULL, "", <<DependencyExport("a", t)>>))

NextDepValidate ==
    \/ \E id \in LifeIDs : CallCreateIssue(id, StatusOpen, TRUE)
    \/ \E i \in DepValidateIDs, d \in DepValidateIDs, t \in DepValidateTypes :
          Cardinality(deps) < MaxDepsOps /\ CallAddDependency(i, d, t, TRUE)
    \/ \E id \in LifeIDs : CallRemoveAllDependencies(id)
    \/ \E t \in DepValidateTypes : CallImportFromJSONL(<<EdgeRecord(t)>>)

SpecDepValidate == Init /\ [][NextDepValidate]_vars

\* SpecConc: two callers of one Store.  The Store holds a *sql.DB; every
\* db.Exec takes the idle connection of the pool and returns it when the
\* statement is done, so the statements of both callers run on the connection
\* that carries the transaction of WithTransaction

\* the store calls the fn of the first caller makes, all on issue "a"
ConcTxCalls ==
    {[op |-> "CreateIssue", id |-> "a"], [op |-> "UpdateIssue", id |-> "a"],
     [op |-> "CloseIssue", id |-> "a"]}

\* first caller, WithTransaction: BEGIN IMMEDIATE
TxBegin ==
    /\ conn.pc = "idle"
    /\ conn' = [pc |-> "fn", saved |-> DB]
    /\ UNCHANGED <<issues, deps, foreignKeys, clock, last>>

\* first caller, inside fn: one store call; its error is returned by fn, and
\* WithTransaction runs ROLLBACK and returns it
TxStatement(c) ==
    /\ conn.pc = "fn"
    /\ LET r == TxCall(DB, c, clock, foreignKeys) IN
          IF r.err = "nil"
          THEN Apply(r) /\ UNCHANGED <<last, conn>>
          ELSE /\ Apply(Ret(conn.saved, r.err))
               /\ last' = Call("WithTransaction", "", r.err)
               /\ conn' = NoTx
    /\ UNCHANGED <<foreignKeys, clock>>

\* first caller: fn returns ret; nil runs COMMIT, an error runs ROLLBACK
TxReturn(ret) ==
    /\ conn.pc = "fn"
    /\ Apply(WithTransaction(conn.saved, Ret(DB, ret)))
    /\ last' = Call("WithTransaction", "", ret)
    /\ conn' = NoTx
    /\ UNCHANGED <<foreignKeys, clock>>

\* second caller: WithTransaction while the connection is inside BEGIN
\* IMMEDIATE; its own BEGIN fails
OtherBegin ==
    /\ conn.pc = "fn"
    /\ last' = Call("WithTransaction", "", "begin transaction")
    /\ UNCHANGED <<issues, deps, foreignKeys, clock, conn>>

\* the second caller writes issue "b" with the plain store calls
NextConc ==
    \/ TxBegin
    \/ \E c \in ConcTxCalls : TxStatement(c)
    \/ \E ret \in {"nil", "testErr"} : TxReturn(ret)
    \/ OtherBegin
    \/ CallCreateIssue("b", StatusOpen, TRUE)
    \/ CallCloseIssue("b", TRUE)

SpecConc == Init /\ [][NextConc]_vars

----------------------------------------------------------------------------
(* SpecCmd: the create and update commands with --blocked-by *)

\* addBlockers: the blockers in the order given; each is compared with the
\* issue, looked up, and linked with a blocks edge before the next is examined
RECURSIVE addBlockers(_, _, _, _)
addBlockers(db, issueID, blockerIDs, fk) ==
    IF blockerIDs = <<>> THEN Ret(db, "nil")
    ELSE LET blockerID == Head(blockerIDs)
             r == AddDependency(db, issueID, blockerID, DepBlocks, fk)
         IN  IF blockerID = issueID THEN Ret(db, "issue cannot block itself")
             ELSE IF GetIssue(db, blockerID).err # "nil"
                  THEN Ret(db, "blocker issue: " \o GetIssue(db, blockerID).err)
             ELSE IF r.err # "nil" THEN Ret(r.db, "blocker issue: " \o r.err)
             ELSE addBlockers(r.db, issueID, Tail(blockerIDs), fk)

\* bl create <title> --blocked-by <id>...: the issue is stored with
\* CreateIssue, then addBlockers runs; id is the id NewIssue generated
cmdCreate(db, id, title, blockedBy, now, fk) ==
    LET r == CreateIssue(db, NewIssue(id, title, now)) IN
    IF r.err # "nil" THEN Ret(db, "failed to create issue: " \o r.err)
    ELSE addBlockers(r.db, id, blockedBy, fk)

\* bl update <id> --title <title> --blocked-by <id>...: the issue is read, the
\* title applied and written back with UpdateIssue, then addBlockers runs; the
\* other flags are left out
cmdUpdateBlockedBy(db, id, title, blockedBy, now, fk) ==
    LET got == GetIssue(db, id)
        r == UpdateIssue(db, [got.issue EXCEPT
                                 !.title = IF title = "" THEN @ ELSE title], now)
    IN  IF got.err # "nil" THEN Ret(db, "issue: " \o got.err)
        ELSE IF r.err # "nil" THEN Ret(r.db, "failed to update: " \o r.err)
        ELSE addBlockers(r.db, id, blockedBy, fk)

\* the longest list of --blocked-by flags of one command
MaxBlockers == 2

\* the lists of --blocked-by flags
BlockerLists == SeqsUpTo(IDs, MaxBlockers)

\* the titles update is called with; "" is --title left out
UpdateTitles == {"", "U"}

CallCmdCreate(id, blockedBy) ==
    Step(cmdCreate(DB, id, "T", blockedBy, clock, foreignKeys), "cmdCreate", id, TRUE)

CallCmdUpdateBlockedBy(id, title, blockedBy) ==
    Step(cmdUpdateBlockedBy(DB, id, title, blockedBy, clock, foreignKeys),
         "cmdUpdate", id, TRUE)

\* the id of a created issue is generated by the command, so the flags of
\* create name other ids; those of update may name the issue itself
NextCmd ==
    \/ \E id \in IDs : \E blockedBy \in SeqsUpTo(IDs \ {id}, MaxBlockers) :
          CallCmdCreate(id, blockedBy)
    \/ \E id \in IDs : \E title \in UpdateTitles : \E blockedBy \in BlockerLists :
          CallCmdUpdateBlockedBy(id, title, blockedBy)
    \/ \E id \in IDs : CallDeleteIssue(id, TRUE)

SpecCmd == Init /\ [][NextCmd]_vars

----------------------------------------------------------------------------
(* Claims *)

\* C1: in every store state GetReadyWork returns exactly the open or
\* in_progress issues outside Blocked, the least set containing DirectlyBlocked
\* and closed under parent -> child of the parent-child edges.
C1_ReadyIsActiveMinusBlocked ==
    GetReadyWork(DB) = {i \in IDs : IsActive(i)} \ Blocked

\* a state where propagation adds an active issue to Blocked and something is ready
C1_Witness ==
    /\ \E c \in Blocked \ DirectlyBlocked : IsActive(c)
    /\ GetReadyWork(DB) # {}

\* C2: every issue reachable from a blocked issue along parent-child edges,
\* parent to child, at any depth, is absent from the GetReadyWork result.
C2_BlockingPropagatesDown ==
    LET ready == GetReadyWork(DB) IN
    \A x \in DirectlyBlocked :
        \A y \in Descendants({x}, Depth) : y \notin ready

\* a blocked x, its child y and y's child z, z active and below x only through y
C2_Witness ==
    \E x \in DirectlyBlocked, y \in IDs, z \in IDs :
        /\ y \in Children(x) /\ z \in Children(y)
        /\ z \notin Children(x) /\ z \notin DirectlyBlocked /\ y \notin DirectlyBlocked
        /\ Cardinality({x, y, z}) = 3
        /\ IsActive(z) /\ IsActive(y)
        /\ z \notin GetReadyWork(DB)

\* C3: an active issue with a parent, whose parent-child ancestors are all
\* neither closed nor blocked and which has no blocks edge to a non-closed
\* issue, is returned by GetReadyWork.
C3_ParentChildAloneDoesNotBlock ==
    LET ready == GetReadyWork(DB)
        blocked == Blocked
    IN  \A i \in IDs :
            ( /\ IsActive(i)
              /\ Parents(i) # {}
              /\ \A p \in ProperAncestors(i) : NotClosed(p) /\ p \notin blocked
              /\ OpenPrerequisites(i) = {} )
            => i \in ready

\* a ready child of a stored, open, unblocked parent
C3_Witness ==
    \E i \in IDs, p \in IDs :
        /\ p \in Parents(i) /\ IsActive(p) /\ IsActive(i)
        /\ p \in GetReadyWork(DB) /\ i \in GetReadyWork(DB)

\* the only edges leaving a or b are related edges between the two
LinkedOnlyByRelated(a, b) ==
    /\ a # b
    /\ \E d \in deps : d.type = "related" /\ {d.issue_id, d.depends_on_id} = {a, b}
    /\ \A d \in deps : d.issue_id \in {a, b} =>
           d.type = "related" /\ d.depends_on_id \in {a, b}

\* C4: in every store state, AddDependency or RemoveDependency of a related
\* edge between any two issues leaves the GetReadyWork result unchanged, and
\* two active issues linked only by a related edge are both ready.
C4_RelatedNeverAffectsReadiness ==
    LET ready == GetReadyWork(DB) IN
    /\ \A i \in IDs, d \in IDs :
          /\ GetReadyWork(AddDependency(DB, i, d, "related", foreignKeys).db) = ready
          /\ GetReadyWork(RemoveDependency(DB, i, d, "related").db) = ready
    /\ \A a \in IDs, b \in IDs :
          (IsActive(a) /\ IsActive(b) /\ LinkedOnlyByRelated(a, b))
          => {a, b} \subseteq ready

\* a stored related edge from an active issue to a non-closed one, both ready,
\* next to a blocked third issue
C4_Witness ==
    \E d \in deps :
        /\ d.type = "related"
        /\ {d.issue_id, d.depends_on_id} \subseteq GetReadyWork(DB)
        /\ LinkedOnlyByRelated(d.issue_id, d.depends_on_id)
        /\ \E k \in DirectlyBlocked : IsActive(k)

ChainAB == {NewDependency("b", "a", "blocks"), NewDependency("c", "b", "blocks")}

\* i is blocked by the one non-closed prerequisite p and by nothing else
BlockedOnlyBy(i, p) ==
    /\ IsActive(i)
    /\ OpenPrerequisites(i) = {p}
    /\ ProperAncestors(i) \cap Blocked = {}

\* C5: an active issue blocked only by one non-closed prerequisite (no blocked
\* ancestor) is not ready, and GetReadyWork on the store right after
\* CloseIssue on that prerequisite returns it; on the chain a <- b <- c the
\* ready set is {a}, then {b} once a is closed, then {c} once b is closed.
C5_CloseUnblocksAtOnce ==
    /\ \A i \in IDs, p \in IDs :
          BlockedOnlyBy(i, p) =>
              /\ i \notin GetReadyWork(DB)
              /\ i \in GetReadyWork(CloseIssue(DB, p, ResolutionDone, clock).db)
    /\ (deps = ChainAB /\ IsActive("a") /\ IsActive("b") /\ IsActive("c")) =>
          LET closedA == CloseIssue(DB, "a", ResolutionDone, clock).db
              closedB == CloseIssue(closedA, "b", ResolutionDone, clock).db
          IN  /\ GetReadyWork(DB) = {"a"}
              /\ GetReadyWork(closedA) = {"b"}
              /\ GetReadyWork(closedB) = {"c"}

\* the chain with a closed by CloseIssue, b ready and still the only open
\* prerequisite of c
C5_Witness ==
    /\ deps = ChainAB
    /\ IsStored("a") /\ issues["a"].status = "closed" /\ issues["a"].closed_at # NULL
    /\ BlockedOnlyBy("c", "b")
    /\ GetReadyWork(DB) = {"b"}

\* C6: an issue with a blocks edge to at least one non-closed issue is not in
\* the GetReadyWork result, however many of its other prerequisites are closed.
C6_BlockedUntilAllPrerequisitesClosed ==
    LET ready == GetReadyWork(DB) IN
    \A i \in IDs : OpenPrerequisites(i) # {} => i \notin ready

\* the diamond's d: two blocks prerequisites, one closed, one open, d not ready
C6_Witness ==
    \E i \in IDs, p \in IDs, q \in IDs :
        /\ IsActive(i) /\ p # q
        /\ {NewDependency(i, p, "blocks"), NewDependency(i, q, "blocks")} \subseteq deps
        /\ IsStored(p) /\ issues[p].status = "closed"
        /\ NotClosed(q)
        /\ i \notin GetReadyWork(DB)

\* blocks edges between stored, non-closed issues
LiveBlocks ==
    {d \in deps : d.type = "blocks" /\ NotClosed(d.issue_id) /\ NotClosed(d.depends_on_id)}

\* the issues reached from S along at most n edges of E, following
\* issue_id -> depends_on_id
RECURSIVE Reach(_, _, _)
Reach(E, S, n) ==
    IF n = 0 THEN S
    ELSE Reach(E, S \cup {d.depends_on_id : d \in {e \in E : e.issue_id \in S}}, n - 1)

\* i lies on a cycle of blocks edges all of whose members are stored and not closed
OnLiveCycle(i) ==
    i \in Reach(LiveBlocks, {d.depends_on_id : d \in {e \in LiveBlocks : e.issue_id = i}},
                Depth)

\* the blocks edge i -> d would close a cycle of blocks edges
ClosesCycle(i, d) ==
    i \in Reach({e \in deps : e.type = "blocks"}, {d}, Depth)

\* C7: AddDependency accepts a new blocks edge that closes a cycle (it fails
\* only on validation, a duplicate triple or a foreign key), and no member of
\* a blocks-only cycle of stored non-closed issues is in the GetReadyWork result.
C7_CyclesAcceptedAndBlocked ==
    /\ \A i \in IDs, d \in IDs :
          ( /\ i # d /\ ClosesCycle(i, d)
            /\ NewDependency(i, d, "blocks") \notin deps
            /\ ForeignKeyOK(DB, NewDependency(i, d, "blocks"), foreignKeys) )
          => /\ AddDependency(DB, i, d, "blocks", foreignKeys).err = "nil"
             /\ NewDependency(i, d, "blocks")
                    \in AddDependency(DB, i, d, "blocks", foreignKeys).db.deps
    /\ LET ready == GetReadyWork(DB) IN
       \A i \in IDs : OnLiveCycle(i) => i \notin ready

\* a stored cycle a -> b -> c -> a of blocks edges, all three active, none ready
C7_Witness ==
    /\ \A i \in IDs : IsActive(i) /\ OnLiveCycle(i)
    /\ Cardinality(LiveBlocks) = 3
    /\ GetReadyWork(DB) = {}

\* C8: an ImportFromJSONL that returns an error (a parse error, a validation
\* failure of an issue or of an edge, a duplicate edge) leaves the issues and
\* the edges exactly as they were before the call.
C8_ImportAllOrNothing ==
    [][(last'.op = "ImportFromJSONL" /\ last'.err # "nil")
          => (issues' = issues /\ deps' = deps)]_vars

\* an import has just failed on its second line, after the record of the first
\* line was written, and the store holds what it held before
C8_Witness ==
    /\ last.op = "ImportFromJSONL"
    /\ last.err \in {"parse error", "add dependency", "create issue"}
    /\ last.line = 2
    /\ IsStored("a")

\* C9: WithTransaction(fn) returns the error fn returned, as it is, with the
\* store as it was before the call; when fn returns nil it returns nil and
\* the store holds all the writes of fn.
C9_TransactionRollsBackOrCommits ==
    /\ [][(last'.op = "WithTransaction" /\ last'.err # "nil")
             => (issues' = issues /\ deps' = deps)]_vars
    /\ [](\A calls \in SeqsUpTo(TxCalls, MaxTxOps), ret \in {"nil", "testErr"} :
            LET fn == RunFn(DB, calls, ret, clock, foreignKeys)
                tx == WithTransaction(DB, fn)
            IN  /\ tx.err = fn.err
                /\ fn.err # "nil" => tx.db = DB
                /\ fn.err = "nil" => tx.db = fn.db)

\* the transaction of the test: with "a" stored, a fn made two store calls that
\* succeeded and returned testErr; "a" has its title of before and "b" is absent
C9_Witness ==
    /\ last.op = "WithTransaction" /\ last.err = "testErr" /\ last.calls = 2
    /\ IsStored("a") /\ issues["a"].title = "T"
    /\ ~IsStored("b")

Touches(d, id) == d.issue_id = id \/ d.depends_on_id = id

\* C10: a DeleteIssue(id) that succeeds leaves no issue with that id and no
\* edge with that id at either end, and leaves every other issue and every
\* edge not touching id as it was.
C10_DeleteRemovesIssueAndItsEdges ==
    /\ (last.op = "DeleteIssue" /\ last.err = "nil") =>
          /\ ~IsStored(last.id)
          /\ \A d \in deps : ~Touches(d, last.id)
    /\ \A id \in IDs :
          LET r == DeleteIssue(DB, id) IN
          r.err = "nil" =>
              /\ id \notin Stored(r.db)
              /\ \A d \in r.db.deps : ~Touches(d, id)
              /\ Stored(r.db) = Stored(DB) \ {id}
              /\ \A x \in Stored(r.db) : r.db.issues[x] = issues[x]
              /\ r.db.deps = {d \in deps : ~Touches(d, id)}

\* "a" has just been deleted; "b" and "c" are stored and an edge between
\* them is still there
C10_Witness ==
    /\ last = Call("DeleteIssue", "a", "nil")
    /\ IsStored("b") /\ IsStored("c")
    /\ \E d \in deps : ~Touches(d, "a")

\* C11: a DeleteIssue on an id with no stored issue returns the error "issue
\* not found" and leaves both tables as they were; edges that name the id stay.
C11_DeleteMissingChangesNothing ==
    [][(last'.op = "DeleteIssue" /\ last'.err # "nil")
          => /\ last'.err = "issue not found"
             /\ last'.id \notin DOMAIN issues
             /\ issues' = issues
             /\ deps' = deps]_vars

\* DeleteIssue("a") has just failed, "a" is not stored and an edge naming "a"
\* is still in the table
C11_Witness ==
    /\ last = Call("DeleteIssue", "a", "issue not found")
    /\ ~IsStored("a")
    /\ \E d \in deps : Touches(d, "a")

\* C12: when DeleteIssue(x) succeeds, every active issue that was blocked only
\* by its blocks edge to x (no other open prerequisite, no blocked ancestor) is
\* in the GetReadyWork result of the store right after the call.
C12_DeleteUnblocksDependents ==
    [][\A i \in IDs :
          ( /\ last'.op = "DeleteIssue" /\ last'.err = "nil"
            /\ BlockedOnlyBy(i, last'.id)
            /\ i \notin GetReadyWork(DB) )
          => i \in GetReadyWork([issues |-> issues', deps |-> deps'])]_vars

\* "a" has just been deleted from the chain a <- b <- c: b, blocked only by a
\* before, is ready, and c is blocked only by b
C12_Witness ==
    /\ last = Call("DeleteIssue", "a", "nil")
    /\ deps = {NewDependency("c", "b", "blocks")}
    /\ GetReadyWork(DB) = {"b"}
    /\ BlockedOnlyBy("c", "b")

\* the lines of source that hold a record
RecordIndexes(source) == {k \in 1..Len(source) : source[k].kind = "record"}

RecordIDs(source) == {source[k].export.id : k \in RecordIndexes(source)}

\* the last record of source for id
LastRecord(source, id) ==
    LET ks == {k \in RecordIndexes(source) : source[k].export.id = id}
    IN  source[CHOOSE k \in ks : \A j \in ks : j <= k].export

\* the edges a dependency list names for issue id
ListedEdges(id, dependencies) ==
    {NewDependency(id, dependencies[j].depends_on, dependencies[j].type) :
        j \in 1..Len(dependencies)}

RecordsFor(source, id) ==
    Cardinality({k \in RecordIndexes(source) : source[k].export.id = id})

MutableFields ==
    {"title", "description", "status", "priority", "type", "created_at",
     "updated_at", "closed_at", "resolution"}

\* C14: when ImportFromJSONL processes a record whose id is stored, the stored
\* issue afterwards has the record's title, description, status, priority,
\* type, created_at, updated_at, closed_at and resolution.
C14_ImportOverwritesFields ==
    \A line \in UpsertLines :
        (line.kind = "record" /\ line.export.id \in Stored(DB)) =>
            LET r == ImportFromJSONL(DB, <<line>>, clock, foreignKeys) IN
            r.err = "nil" =>
                \A f \in MutableFields :
                    r.db.issues[line.export.id][f] = line.export[f]

\* the records of source whose id is absent from the store when they are
\* processed: not stored before the import and in no earlier record
CreatingRecords(source) ==
    {k \in RecordIndexes(source) :
        /\ source[k].export.id \notin DOMAIN issues
        /\ \A j \in RecordIndexes(source) :
              j < k => source[j].export.id # source[k].export.id}

\* the lines of source that are not blank (neither empty nor spaces only)
NonBlankLines(source) ==
    {k \in 1..Len(source) : source[k].kind \notin {"empty", "space"}}

\* C15: a successful ImportFromJSONL returns Created = the number of records
\* whose id was absent when processed, Updated = the number whose id was
\* present, and Created + Updated = the number of non-blank lines.
C15_ImportCounts ==
    \A source \in UpsertSources :
        LET r == ImportFromJSONL(DB, source, clock, foreignKeys) IN
        r.err = "nil" =>
            /\ r.created = Cardinality(CreatingRecords(source))
            /\ r.updated = Cardinality(RecordIndexes(source) \ CreatingRecords(source))
            /\ r.created + r.updated = Cardinality(NonBlankLines(source))

\* an import has just returned Created = 1 and Updated = 1
C15_Witness ==
    /\ last.op = "ImportFromJSONL" /\ last.err = "nil"
    /\ last.created = 1 /\ last.updated = 1

\* every field of an issue but updated_at, which UpdateIssue sets to now
SameButUpdatedAt(i, j) == [i EXCEPT !.updated_at = 0] = [j EXCEPT !.updated_at = 0]

\* C16: when the export of the store has been imported with success into a
\* store (the exported store itself, or an empty one), importing the same
\* lines again into that store succeeds with Created = 0 and Updated = the
\* number of issues exported, and leaves the same issues and the same edges.
C16_ImportOfExportIsIdempotent ==
    \A target \in {DB, EmptyDB} :
        LET lines == ExportToJSONL(DB)
            first == ImportFromJSONL(target, lines, clock, foreignKeys)
            second == ImportFromJSONL(first.db, lines, clock, foreignKeys)
        IN  first.err = "nil" =>
                /\ second.err = "nil"
                /\ second.created = 0
                /\ second.updated = Cardinality(DOMAIN issues)
                /\ Stored(second.db) = Stored(first.db)
                /\ \A id \in Stored(first.db) :
                      SameButUpdatedAt(second.db.issues[id], first.db.issues[id])
                /\ second.db.deps = first.db.deps

\* the export of a store of three issues, one of them closed, with a blocks
\* edge, has just been imported into it: nothing created, three updated
C16_Witness ==
    /\ last.op = "ImportFromJSONL" /\ last.err = "nil"
    /\ last.created = 0 /\ last.updated = 3
    /\ \E d \in deps : d.type = "blocks" /\ IsStored(d.issue_id)
    /\ \E id \in IDs : IsStored(id) /\ issues[id].status = "closed"

\* C17: in every reachable store state, importing the export of the store
\* into an empty store succeeds and yields the same issues with the same
\* field values, the same edges and the same GetReadyWork result.
C17_RoundTrip ==
    LET r == ImportFromJSONL(EmptyDB, ExportToJSONL(DB), clock, foreignKeys)
    IN  /\ r.err = "nil"
        /\ r.db.issues = issues
        /\ r.db.deps = deps
        /\ GetReadyWork(r.db) = GetReadyWork(DB)

\* C18: every stored issue has closed_at set if and only if its status is
\* closed, and a closed_at that is set is not cleared by any later call.
C18_ClosedAtIffClosed ==
    /\ [](\A id \in DOMAIN issues :
             (issues[id].closed_at # NULL) <=> (issues[id].status = StatusClosed))
    /\ [][\A id \in DOMAIN issues :
             (issues[id].closed_at # NULL /\ id \in DOMAIN issues')
             => issues'[id].closed_at # NULL]_vars

\* C19: on a stored issue, CloseIssue(id, r) with r outside done, wontfix,
\* duplicate (and the empty resolution) returns an error and leaves the issue
\* as it is; with r among them it returns nil and the issue has status closed,
\* closed_at = updated_at = now and resolution r.
C19_CloseValidatesResolution ==
    \A id \in DOMAIN issues, r \in CloseResolutions :
        LET ret == CloseIssue(DB, id, r, clock) IN
        IF ResolutionValid(r)
        THEN /\ ret.err = "nil"
             /\ ret.db.issues[id] =
                    [issues[id] EXCEPT !.status = StatusClosed, !.closed_at = clock,
                                       !.updated_at = clock, !.resolution = r]
        ELSE /\ ret.err # "nil"
             /\ ret.db = DB

\* C20: CloseIssue on an issue that is closed returns nil and leaves its
\* status, closed_at and resolution as they are, and the GetReadyWork result
\* as it is.
C20_CloseIsIdempotent ==
    \A id \in DOMAIN issues, r \in {ResolutionDone, ResolutionWontfix} :
        issues[id].status = StatusClosed =>
            LET ret == CloseIssue(DB, id, r, clock) IN
            /\ ret.err = "nil"
            /\ ret.db.issues[id].status = issues[id].status
            /\ ret.db.issues[id].closed_at = issues[id].closed_at
            /\ ret.db.issues[id].resolution = issues[id].resolution
            /\ GetReadyWork(ret.db) = GetReadyWork(DB)

\* C21: in every state reached by AddDependency, RemoveDependency, import and
\* delete no stored edge joins an issue to itself, two stored edges between
\* the same ordered pair differ in type, and the store accepts no insert that
\* would break either: an AddDependency that succeeds names a triple that is
\* not stored and two different ids.
C21_EdgesIrreflexiveAndUnique ==
    /\ \A d \in deps : d.issue_id # d.depends_on_id
    /\ \A d \in deps, e \in deps :
          (d # e /\ d.issue_id = e.issue_id /\ d.depends_on_id = e.depends_on_id)
          => d.type # e.type
    /\ \A i \in IDs, d \in IDs, t \in DepTypes :
          AddDependency(DB, i, d, t, foreignKeys).err = "nil"
          => (i # d /\ NewDependency(i, d, t) \notin deps)

\* an import was refused for an edge it listed, and two edges of different
\* types join one ordered pair
C21_Witness ==
    /\ last.op = "ImportFromJSONL" /\ last.err = "add dependency"
    /\ \E d \in deps, e \in deps :
          d # e /\ d.issue_id = e.issue_id /\ d.depends_on_id = e.depends_on_id
    /\ \E i \in IDs, t \in DepTypes :
          AddDependency(DB, i, i, t, foreignKeys).err = "issue cannot depend on itself"

\* C22: AddDependency with a triple that is stored fails with the error of the
\* PRIMARY KEY and leaves both tables, and so the ready work, as they were;
\* with the same pair and a type not yet stored for it, it succeeds and adds
\* that one edge.
C22_DuplicateEdgeRejected ==
    \A e \in deps :
        /\ LET r == AddDependency(DB, e.issue_id, e.depends_on_id, e.type, foreignKeys)
           IN  /\ r.err = "UNIQUE constraint failed"
               /\ r.db = DB
               /\ GetReadyWork(r.db) = GetReadyWork(DB)
        /\ \A t \in DepTypes :
              NewDependency(e.issue_id, e.depends_on_id, t) \notin deps
              => LET r == AddDependency(DB, e.issue_id, e.depends_on_id, t, foreignKeys)
                 IN  /\ r.err = "nil"
                     /\ r.db.issues = issues
                     /\ r.db.deps = deps \cup {NewDependency(e.issue_id, e.depends_on_id, t)}

\* the last call repeated a stored blocks edge and was refused; its dependent
\* is active and still not ready
C22_Witness ==
    /\ last.op = "AddDependency" /\ last.err = "UNIQUE constraint failed"
    /\ IsActive(last.id)
    /\ last.id \in DirectlyBlocked
    /\ last.id \notin GetReadyWork(DB)

\* C23: CreateIssue validates first.  An invalid issue is refused with the
\* error of Validate whether or not its id is stored; a valid issue whose id
\* is stored is refused with the error of the PRIMARY KEY and the stored row
\* stays; a valid issue with a new id is inserted.  A CreateIssue that returns
\* an error leaves both tables as they were.
C23_CreateValidatesThenInserts ==
    /\ [](\A id \in IDs : \A issue \in CreateCandidates(id) :
            LET r == CreateIssue(DB, issue)
                invalid == TrimSpace(issue.title) = "" \/ issue.priority \notin 0..4
            IN  /\ invalid =>
                      /\ r.err = IF TrimSpace(issue.title) = ""
                                 THEN "title cannot be empty"
                                 ELSE "priority must be 0-4"
                      /\ r.db = DB
                /\ (~invalid /\ IsStored(id)) =>
                      /\ r.err = "insert issue: UNIQUE constraint failed"
                      /\ r.db = DB
                /\ (~invalid /\ ~IsStored(id)) =>
                      /\ r.err = "nil"
                      /\ r.db.issues[id] = issue)
    /\ [][(last'.op = "CreateIssue" /\ last'.err # "nil")
             => (issues' = issues /\ deps' = deps)]_vars

\* the last call created an id that is stored and was refused; the stored
\* issue, closed before, is not one the call could have been made with
C23_Witness ==
    /\ last.op = "CreateIssue"
    /\ last.err = "insert issue: UNIQUE constraint failed"
    /\ IsStored(last.id)
    /\ issues[last.id].status = StatusClosed
    /\ issues[last.id] \notin CreateCandidates(last.id)

\* C24: an UpdateIssue with a valid issue whose id is not stored returns nil,
\* stores no issue under that id (GetIssue on it still fails with
\* ErrIssueNotFound) and leaves every stored issue and every edge as it was.
C24_UpdateMissingIsNoOp ==
    [][(last'.op = "UpdateIssue" /\ last'.id \notin DOMAIN issues)
         => /\ last'.err = "nil"
            /\ issues' = issues
            /\ deps' = deps
            /\ GetIssue([issues |-> issues', deps |-> deps'], last'.id).err
                  = "ErrIssueNotFound"]_vars

\* the last call updated an id that is not stored, in a store that holds
\* another issue and an edge
C24_Witness ==
    /\ last.op = "UpdateIssue" /\ last.err = "nil"
    /\ ~IsStored(last.id)
    /\ \E id \in IDs : IsStored(id)
    /\ deps # {}

\* C25: RemoveDependency returns nil whatever it is called with.  When the
\* named edge is stored, that edge and no other is removed; when it is not,
\* because it was never added or because its issue_id names no stored issue,
\* both tables stay as they were.  No call of RemoveDependency touches table
\* issues or removes an edge of another issue_id.
C25_RemoveDependencyIsSilent ==
    /\ [](\A i \in IDs, d \in IDs, t \in DepTypes :
            LET edge == NewDependency(i, d, t)
                r == RemoveDependency(DB, i, d, t)
            IN  /\ r.err = "nil"
                /\ r.db.issues = issues
                /\ edge \notin r.db.deps
                /\ \A e \in deps : e # edge => e \in r.db.deps
                /\ r.db.deps \subseteq deps
                /\ edge \notin deps => r.db = DB)
    /\ [][last'.op = "RemoveDependency"
             => /\ last'.err = "nil"
                /\ issues' = issues
                /\ deps' \subseteq deps
                /\ Cardinality(deps \ deps') <= 1
                /\ \A e \in deps \ deps' : e.issue_id = last'.id]_vars

\* the last call removed an edge of an id that names no stored issue, from a
\* store that holds edges, and returned nil
C25_Witness ==
    /\ last.op = "RemoveDependency" /\ last.err = "nil"
    /\ ~IsStored(last.id)
    /\ deps # {}
    /\ \A e \in deps : e.issue_id # last.id

\* C26: RemoveAllDependencies(id) returns nil and removes the edges whose
\* issue_id is id and no other: the edges of other issues, those whose
\* depends_on_id is id among them, stay, no edge appears, and table issues,
\* the row of id included, is as it was.
C26_RemoveAllDependenciesFrame ==
    [][last'.op = "RemoveAllDependencies"
         => /\ last'.err = "nil"
            /\ \A e \in deps' : e.issue_id # last'.id
            /\ \A e \in deps : e.issue_id # last'.id => e \in deps'
            /\ deps' \subseteq deps
            /\ issues' = issues]_vars

\* the last call removed the edges of a stored issue; an edge of another
\* issue that points at it is still stored
C26_Witness ==
    /\ last.op = "RemoveAllDependencies" /\ last.err = "nil"
    /\ IsStored(last.id)
    /\ \E e \in deps : e.depends_on_id = last.id /\ e.issue_id # last.id

\* the mutations that name an issue and are not one of the two documented
\* no-ops (UpdateIssue, RemoveDependency)
AddressedMutations == {"CloseIssue", "DeleteIssue", "AddDependency",
                       "RemoveAllDependencies"}

\* C27: a mutation other than UpdateIssue and RemoveDependency that is called
\* with an id that names no stored issue returns an error; CloseIssue on such
\* an id returns ErrIssueNotFound.
C27_MissingIdIsReported ==
    [][(last'.op \in AddressedMutations /\ last'.id \notin DOMAIN issues)
         => /\ last'.err # "nil"
            /\ last'.op = "CloseIssue" => last'.err = "ErrIssueNotFound"]_vars

\* the import sources of one record for "b" that lists an edge to "a"
OrphanSources ==
    {<<line>> : line \in {l \in EdgeLines :
        l.export.id = "b" /\ Len(l.export.dependencies) = 1}}

\* C28: edge targets are not checked.  While "a" is not stored, AddDependency
\* from a stored issue to "a" returns nil and stores the edge, and an import
\* of one record for "b" that lists an edge to "a", an edge not yet stored,
\* returns nil, stores "b" and stores the edge.
C28_EdgeTargetsUnchecked ==
    ~IsStored("a") =>
        /\ \A i \in IDs, t \in DepTypes :
              (IsStored(i) /\ NewDependency(i, "a", t) \notin deps)
              => LET r == AddDependency(DB, i, "a", t, foreignKeys)
                 IN  r.err = "nil" /\ NewDependency(i, "a", t) \in r.db.deps
        /\ \A source \in OrphanSources :
              LET r == ImportFromJSONL(DB, source, clock, foreignKeys)
                  dep == source[1].export.dependencies[1]
                  edge == NewDependency("b", dep.depends_on, dep.type)
              IN  edge \notin deps
                  => /\ r.err = "nil"
                     /\ "b" \in Stored(r.db)
                     /\ edge \in r.db.deps

\* the 1-based positions in the source of the lines that are not empty and
\* are not the JSON of a record
UnparsablePositions(source) ==
    {k \in 1..Len(source) : source[k].kind \notin {"empty", "record"}}

\* the source without its empty lines
RECURSIVE WithoutEmptyLines(_)
WithoutEmptyLines(source) ==
    IF source = <<>> THEN <<>>
    ELSE IF Head(source) = EmptyLine THEN WithoutEmptyLines(Tail(source))
    ELSE <<Head(source)>> \o WithoutEmptyLines(Tail(source))

\* C29: an import does what the import of the source without its empty lines
\* does, and an import that stops at a line that does not parse leaves the
\* store as it was and reports the position of that line in the source, the
\* empty lines before it counted.
C29_ParseErrorLineNumber ==
    \A source \in ImportSources :
        LET r == ImportFromJSONL(DB, source, clock, foreignKeys)
            bare == ImportFromJSONL(DB, WithoutEmptyLines(source), clock, foreignKeys)
        IN  /\ r.db = bare.db /\ r.err = bare.err
            /\ r.err = "parse error" =>
                  /\ r.db = DB
                  /\ UnparsablePositions(source) # {}
                  /\ r.line \in UnparsablePositions(source)
                  /\ \A k \in UnparsablePositions(source) : r.line <= k

\* the edges a record lists, as rows of table dependencies
RecordEdges(export) ==
    {NewDependency(export.id, export.dependencies[j].depends_on,
                   export.dependencies[j].type) : j \in 1..Len(export.dependencies)}

\* C30: ExportToJSONL writes one record for each stored issue and no other
\* line, the records in strictly ascending order of id whatever the
\* priorities and the created_at of the issues, each record listing the
\* stored edges of its issue_id, each once, and no other; for a store without
\* issues it writes nothing.
C30_ExportSortedById ==
    LET out == ExportToJSONL(DB) IN
    /\ Len(out) = Cardinality(DOMAIN issues)
    /\ \A k \in 1..Len(out) : out[k].kind = "record"
    /\ {out[k].export.id : k \in 1..Len(out)} = DOMAIN issues
    /\ \A k \in 1..Len(out) - 1 :
          IDRank(out[k].export.id) < IDRank(out[k + 1].export.id)
    /\ \A k \in 1..Len(out) :
          /\ RecordEdges(out[k].export) = GetDependencies(DB, out[k].export.id)
          /\ Len(out[k].export.dependencies)
                = Cardinality(GetDependencies(DB, out[k].export.id))
          /\ out[k].export.title = issues[out[k].export.id].title
          /\ out[k].export.priority = issues[out[k].export.id].priority
    /\ issues = EmptyIssues => out = <<>>

\* an export was made of a store in which "c" sorts before "b" by priority
\* and "b" before "a" by created_at, and "a" has an edge
C30_Witness ==
    /\ last.op = "ExportToJSONL"
    /\ DOMAIN issues = IDs
    /\ issues["c"].priority < issues["b"].priority
    /\ issues["b"].priority = issues["a"].priority
    /\ issues["b"].created_at < issues["a"].created_at
    /\ ListIssues(DB) = <<"c", "b", "a">>
    /\ GetDependencies(DB, "a") # {}

C32_ValidateFailsIff ==
    /\ \A i \in ValidateInputs :
          (Validate(i) # "nil") <=>
              \/ i.title \in {"", "  "}
              \/ i.status \notin {"open", "in_progress", "closed"}
              \/ i.type \notin {"task", "bug", "feature", "epic"}
              \/ i.priority \notin 0..4
              \/ i.resolution \notin {"", "done", "wontfix", "duplicate"}
    /\ \A id \in DOMAIN issues :
          /\ issues[id].title = "T"
          /\ issues[id].status \in {"open", "in_progress", "closed"}
          /\ issues[id].type \in {"task", "bug", "feature", "epic"}
          /\ issues[id].priority \in 0..4
          /\ issues[id].resolution \in {"", "done", "wontfix", "duplicate"}

\* an issue of priority 4 with a resolution is stored, and the last call, a
\* CreateIssue, was refused by Validate
C32_Witness ==
    /\ IsStored("a")
    /\ issues["a"].priority = 4 /\ issues["a"].resolution = ResolutionDuplicate
    /\ last.op = "CreateIssue"
    /\ last.err \in {"title cannot be empty", "invalid status", "invalid issue type",
                      "priority must be 0-4", "invalid resolution"}

\* what AddDependency and import are claimed to do with an edge of type t
\* from "b" to "a", both stored: the edge, if not stored yet, is added by
\* AddDependency, and the import of a record for "b" that lists it stores it
AcceptedEverywhere(t) ==
    (IsStored("a") /\ IsStored("b")) =>
        /\ NewDependency("b", "a", t) \notin deps =>
              LET r == AddDependency(DB, "b", "a", t, foreignKeys)
              IN  r.err = "nil" /\ NewDependency("b", "a", t) \in r.db.deps
        /\ LET r == ImportFromJSONL(DB, <<EdgeRecord(t)>>, clock, foreignKeys)
           IN  r.err = "nil" /\ NewDependency("b", "a", t) \in r.db.deps

C34_TransactionsIsolated ==
    /\ [](conn.pc = "fn" =>
            /\ IsStored("b") <=> "b" \in Stored(conn.saved)
            /\ IsStored("b") => issues["b"] = conn.saved.issues["b"])
    /\ [][IsStored("b") =>
             /\ "b" \in DOMAIN issues'
             /\ issues["b"].status = StatusClosed
                   => issues'["b"].status = StatusClosed]_vars

\* the errors of a --blocked-by id that names no stored issue or the issue
\* itself
InvalidBlockerErrors ==
    {"issue cannot block itself", "blocker issue: ErrIssueNotFound"}

\* C35: whenever the create or update command returns the error of an invalid
\* --blocked-by id, the command changed nothing: no issue was created, no
\* field was changed and no edge was added
C35_InvalidBlockerRejectedBeforeMutation ==
    [][(last'.op \in {"cmdCreate", "cmdUpdate"} /\ last'.err \in InvalidBlockerErrors)
         => (issues' = issues /\ deps' = deps)]_vars

\* C36: a successful ImportFromJSONL leaves every stored issue whose id has no
\* record in the source stored with the same fields, and leaves every stored
\* edge whose issue_id has no record in the source stored, whatever issue the
\* edge points at.
C36_ImportTouchesOnlyNamed ==
    \A source \in UpsertSources :
        LET r == ImportFromJSONL(DB, source, clock, foreignKeys) IN
        r.err = "nil" =>
            /\ \A id \in Stored(DB) \ RecordIDs(source) :
                  id \in Stored(r.db) /\ r.db.issues[id] = issues[id]
            /\ \A d \in deps :
                  d.issue_id \notin RecordIDs(source) => d \in r.db.deps

\* after an import, "b" is stored with a blocks edge to "a", and the import of
\* a source that names "a" alone changes "a" and leaves "b" and the edge
C36_Witness ==
    /\ last.op = "ImportFromJSONL" /\ last.err = "nil"
    /\ IsStored("a") /\ IsStored("b")
    /\ NewDependency("b", "a", "blocks") \in deps
    /\ \E source \in UpsertSources :
          LET r == ImportFromJSONL(DB, source, clock, foreignKeys) IN
          /\ RecordIDs(source) = {"a"}
          /\ r.err = "nil" /\ r.updated >= 1
          /\ r.db.issues["a"] # issues["a"]
          /\ r.db.issues["b"] = issues["b"]
          /\ NewDependency("b", "a", "blocks") \in r.db.deps

\* C37: a stored closed issue with a blocks edge to a stored non-closed issue
\* is in the blocked set of the query, and no issue linked to it as a
\* parent-child child is in the GetReadyWork result.
C37_ClosedParentStillBlocks ==
    \A p \in IDs :
        ( /\ IsStored(p) /\ issues[p].status = "closed"
          /\ OpenPrerequisites(p) # {} )
        => /\ p \in BlockedCTE(DB)
           /\ \A c \in Children(p) : c \notin GetReadyWork(DB)

\* a closed parent with an open prerequisite, and an open child of it whose
\* only edge is the parent-child edge: the child is not ready
C37_Witness ==
    \E p \in IDs, q \in IDs, c \in IDs :
        /\ IsStored(p) /\ issues[p].status = "closed"
        /\ q \in OpenPrerequisites(p)
        /\ IsActive(c) /\ c \in Children(p)
        /\ GetDependencies(DB, c) = {NewDependency(c, p, "parent-child")}
        /\ c \notin GetReadyWork(DB)

\* the blocks edges of i
BlocksEdges(i) == {d \in deps : d.issue_id = i /\ d.type = "blocks"}

\* C38: an open or in_progress issue that has blocks edges, each to an id that
\* names no stored issue, and no blocked parent-child ancestor, is in the
\* GetReadyWork result.
C38_DanglingEdgeDoesNotBlock ==
    \A i \in IDs :
        ( /\ IsActive(i)
          /\ BlocksEdges(i) # {}
          /\ \A d \in BlocksEdges(i) : ~IsStored(d.depends_on_id)
          /\ ProperAncestors(i) \cap Blocked = {} )
        => i \in GetReadyWork(DB)

\* an open issue with a blocks edge to an id that is not stored, ready
C38_Witness ==
    \E i \in IDs, x \in IDs :
        /\ IsActive(i) /\ ~IsStored(x)
        /\ BlocksEdges(i) = {NewDependency(i, x, "blocks")}
        /\ ProperAncestors(i) \cap Blocked = {}
        /\ i \in GetReadyWork(DB)

\* C39: in every store state the CTE of GetReadyWork empties its queue after at
\* most as many steps as dependencies holds issue ids, each blocked row being
\* taken once; the set it ends with is the one GetReadyWork uses and is closed
\* under the recursive SELECT.
C39_ReadyWorkTerminates ==
    LET run == BlockedCTERun(DB) IN
    /\ run.done
    /\ run.steps = Cardinality(run.blocked)
    /\ run.steps <= Cardinality(IssueIDRows(DB))
    /\ \A b \in run.blocked : ChildRows(DB, b) \subseteq run.blocked
    /\ run.blocked = BlockedCTE(DB)

\* two issues that are each other's parent-child parent, one of them with an
\* open prerequisite: the CTE ends after two steps with both blocked
C39_Witness ==
    \E i \in IDs, j \in IDs, p \in IDs :
        /\ {NewDependency(i, j, "parent-child"), NewDependency(j, i, "parent-child")}
               \subseteq deps
        /\ p \in OpenPrerequisites(i)
        /\ IsActive(i) /\ IsActive(j)
        /\ BlockedCTERun(DB).done
        /\ BlockedCTERun(DB).steps = 2
        /\ BlockedCTERun(DB).blocked = {i, j}
        /\ GetReadyWork(DB) = {p}

\* C40: in every store state the rendering of the dependency tree ends: the
\* calls of printTree never nest deeper than there are stored issues.
C40_TreeRenderingTerminates == outputIssuesTree(DB).done

====
